---- MODULE Spec2Model ----
(***************************************************************************)
(* A model of the JARVIS assistant core: the SpeechEngine wake-word        *)
(* detector with its two worker threads and queues                         *)
(* (speech_engine_updated.py), and the JarvisCore event bus and command    *)
(* pipeline (jarvis_core.py).  Text is modelled as sequences of one-       *)
(* character strings so that `in`, split, strip, lower and len are         *)
(* computed as Python computes them.                                       *)
(***************************************************************************)
EXTENDS Integers, Sequences, FiniteSets, TLC

\* ---------------------------------------------------------------- bounds
MaxSegments == 2
MaxIdleTicks == 2
MaxEvents == 2
MaxRegs == 3
MaxInteractions == 2
MaxSignals == 1
MaxLoopFails == 1
MaxSpeakers == 2
MaxPuts == 3

\* ------------------------------------------------------- program constants
\* len(command) > 2 : speech_engine_updated.py line 280
MinCommandLen == 2

\* ---------------------------------------------------------------- text
W_jarvis ==
    <<"j", "a", "r", "v", "i", "s">>
W_hey_jarvis ==
    <<"h", "e", "y", " ", "j", "a", "r", "v", "i", "s">>
W_ok_jarvis ==
    <<"o", "k", " ", "j", "a", "r", "v", "i", "s">>
U_WakeAndCommand ==
    <<"H", "e", "y", " ", "J", "a", "r", "v", "i", "s", " ", "w", "h", "a", "t", " ", "t", "i", "m", "e", " ", "i", "s", " ", "i", "t">>
U_WakeOnly ==
    <<"h", "e", "y", " ", "j", "a", "r", "v", "i", "s">>
U_Lights ==
    <<"t", "u", "r", "n", " ", "o", "n", " ", "t", "h", "e", " ", "l", "i", "g", "h", "t", "s">>
U_ShortResidual ==
    <<"o", "k", " ", "j", "a", "r", "v", "i", "s", " ", "h", "i">>

\* self.wake_words, in list order
wake_words == <<W_jarvis, W_hey_jarvis, W_ok_jarvis>>

\* what the recognition service can return for a segment (before .lower())
Utterances == {U_WakeAndCommand, U_WakeOnly, U_Lights, U_ShortResidual}

\* str.lower() on the characters the utterances use
LowerChar(c) ==
    CASE c = "H" -> "h"
      [] c = "J" -> "j"
      [] OTHER -> c

Lower(s) == [i \in 1..Len(s) |-> LowerChar(s[i])]

\* s[i:i+len(sub)] == sub
OccursAt(sub, s, i) ==
    /\ i >= 1
    /\ i + Len(sub) - 1 <= Len(s)
    /\ SubSeq(s, i, i + Len(sub) - 1) = sub

\* Python's `sub in s`
Contains(sub, s) == \E i \in 1..(Len(s) + 1) : OccursAt(sub, s, i)

\* index of the leftmost occurrence (str.split(sub, 1) splits there)
FirstIndex(sub, s) ==
    CHOOSE i \in 1..(Len(s) + 1) :
        /\ OccursAt(sub, s, i)
        /\ \A j \in 1..(i - 1) : ~OccursAt(sub, s, j)

\* text.split(sub, 1)[-1] : the text after the first occurrence of sub,
\* or the whole text when sub does not occur
SplitLast(s, sub) ==
    IF Contains(sub, s)
    THEN SubSeq(s, FirstIndex(sub, s) + Len(sub), Len(s))
    ELSE s

RECURSIVE LStrip(_)
LStrip(s) ==
    IF Len(s) > 0 /\ Head(s) = " " THEN LStrip(Tail(s)) ELSE s

RECURSIVE RStrip(_)
RStrip(s) ==
    IF Len(s) > 0 /\ s[Len(s)] = " " THEN RStrip(SubSeq(s, 1, Len(s) - 1)) ELSE s

\* str.strip()
Strip(s) == RStrip(LStrip(s))

\* the None returned by _extract_command_from_wake_phrase; falsy, as "" is
NoCommand == <<>>

\* _contains_wake_word
ContainsWakeWord(text) ==
    \E k \in 1..Len(wake_words) : Contains(wake_words[k], text)

\* the for loop of _extract_command_from_wake_phrase over the list words,
\* from list index k on
RECURSIVE ExtractFromList(_, _, _)
ExtractFromList(words, text, k) ==
    IF k > Len(words) THEN NoCommand
    ELSE IF Contains(words[k], text)
         THEN LET command == Strip(SplitLast(text, words[k]))
              IN  IF Len(command) > MinCommandLen
                  THEN command
                  ELSE ExtractFromList(words, text, k + 1)
         ELSE ExtractFromList(words, text, k + 1)

\* the same loop over the list SpeechEngine.__init__ assigns
ExtractFrom(text, k) == ExtractFromList(wake_words, text, k)

\* _extract_command_from_wake_phrase
ExtractCommand(text) == ExtractFrom(text, 1)

\* ---------------------------------------------------------------- state
VARIABLES
    is_listening,          \* SpeechEngine.is_listening
    wake_word_detected,    \* SpeechEngine.wake_word_detected (TRUE = Armed)
    audio_queue,           \* number of segments in SpeechEngine.audio_queue
    command_queue,         \* SpeechEngine.command_queue, oldest first
    on_wake_word,          \* callback attributes: TRUE when a callable is set
    on_command,
    on_listening_start,
    on_listening_stop,
    audio_thread,          \* "none", "check", "listen", "dead"
    processing_thread,     \* "none", "wait", "got"
    procRec,               \* recognition outcome of the segment being processed
    captured,              \* segments captured so far
    idleTicks,             \* consecutive queue.Empty timeouts of the processing loop
    last,                  \* what the last _process_audio call did
    startEvents,           \* calls made to on_listening_start
    stopEvents,            \* calls made to on_listening_stop
    op,                    \* name of the last operation
    event_handlers,        \* JarvisCore.event_handlers
    lastEmit,              \* what the last emit_event call did
    interactions,          \* records stored by memory_manager.store_interaction
    outbox,                \* responses handed to speak / send_response
    result                 \* what the last process_command call did

speechVars ==
    <<is_listening, wake_word_detected, audio_queue, command_queue,
      on_wake_word, on_command, on_listening_start, on_listening_stop,
      audio_thread, processing_thread, procRec, captured, idleTicks, last,
      startEvents, stopEvents>>

busVars == <<event_handlers, lastEmit>>

dispatchVars == <<interactions, outbox, result>>

VARIABLES
    appPc,                 \* where JarvisApplication.run is: "init",
                           \* "init_failed", "initialized", "running",
                           \* "critical", "exited"
    exitCode,              \* the process exit status, -1 while it runs
    comp,                  \* per component: "none", "initializing", "ready",
                           \* "failed", "stopped"
    is_active,             \* JarvisCore.is_active
    running,               \* JarvisApplication.running
    handlersInstalled,     \* the SIGINT/SIGTERM handlers are set
    loops,                 \* per loop: "notstarted", "running", "returned", "raised"
    loopFails,             \* the loops in which a failure was raised
    shut,                  \* the invocations of JarvisApplication.shutdown
    shutdownCalls,         \* per component: calls made to its shutdown
    signals,               \* termination signals delivered
    speakers               \* per caller: its speak request

lifeVars ==
    <<appPc, exitCode, comp, is_active, running, handlersInstalled, loops,
      loopFails, shut, shutdownCalls, signals>>

speakVars == <<speakers>>

VARIABLES
    xwords,                \* the wake_words list _extract_command_from_wake_phrase reads
    xtext,                 \* the text of its last call
    xcommand,              \* what its last call returned
    drainers,              \* per caller: its get_pending_commands call
    offered,               \* the commands put on command_queue, in put order
    returned               \* the commands returned by finished drain calls

extractVars == <<xwords, xtext, xcommand>>

drainVars == <<drainers, offered, returned>>

vars ==
    <<speechVars, busVars, dispatchVars, lifeVars, speakVars, extractVars,
      drainVars, op>>

callbackVars == <<on_wake_word, on_command, on_listening_start, on_listening_stop>>

NoRec == [kind |-> "none", text |-> <<>>]

NoLast ==
    [kind |-> "none", text |-> <<>>, armedBefore |-> FALSE,
     enq |-> <<>>, raised |-> FALSE, cbs |-> {}]

Recognitions ==
    [kind : {"text"}, text : Utterances]
    \cup {[kind |-> "UnknownValueError", text |-> <<>>],
          [kind |-> "RequestError", text |-> <<>>]}

\* SpeechEngine.__init__; the owner of the engine assigns the four callback
\* attributes after construction, so each is either still None or a callable
InitSpeech ==
    /\ is_listening = FALSE
    /\ wake_word_detected = FALSE
    /\ audio_queue = 0
    /\ command_queue = <<>>
    /\ on_wake_word \in BOOLEAN
    /\ on_command \in BOOLEAN
    /\ on_listening_start \in BOOLEAN
    /\ on_listening_stop \in BOOLEAN
    /\ audio_thread = "none"
    /\ processing_thread = "none"
    /\ procRec = NoRec
    /\ captured = 0
    /\ idleTicks = 0
    /\ last = NoLast
    /\ startEvents = 0
    /\ stopEvents = 0

\* ------------------------------------------------------- speech engine
\* _start_audio_threads: both worker threads start running their loops
StartAudioThreads ==
    /\ audio_thread = "none"
    /\ processing_thread = "none"
    /\ audio_thread' = "check"
    /\ processing_thread' = "wait"
    /\ op' = "start_threads"
    /\ UNCHANGED <<is_listening, wake_word_detected, audio_queue, command_queue,
                   callbackVars, procRec, captured, idleTicks, last,
                   startEvents, stopEvents>>
    /\ UNCHANGED <<busVars, dispatchVars, lifeVars, speakVars, extractVars, drainVars>>

\* _audio_capture_loop, the `while self.is_listening` test: the loop body is
\* entered when the flag is set, and the thread function returns otherwise
CaptureCheck ==
    /\ audio_thread = "check"
    /\ audio_thread' = IF is_listening THEN "listen" ELSE "dead"
    /\ op' = "capture_check"
    /\ UNCHANGED <<is_listening, wake_word_detected, audio_queue, command_queue,
                   callbackVars, processing_thread, procRec, captured, idleTicks,
                   last, startEvents, stopEvents>>
    /\ UNCHANGED <<busVars, dispatchVars, lifeVars, speakVars, extractVars, drainVars>>

\* _audio_capture_loop, the body: recognizer.listen returns a segment that is
\* put on audio_queue, or raises (WaitTimeoutError, device error) and the
\* loop goes round again
CaptureListen ==
    /\ audio_thread = "listen"
    /\ \E heard \in BOOLEAN :
         /\ heard => captured < MaxSegments
         /\ audio_queue' = IF heard THEN audio_queue + 1 ELSE audio_queue
         /\ captured' = IF heard THEN captured + 1 ELSE captured
    /\ audio_thread' = "check"
    /\ op' = "capture_listen"
    /\ UNCHANGED <<is_listening, wake_word_detected, command_queue,
                   callbackVars, processing_thread, procRec, idleTicks,
                   last, startEvents, stopEvents>>
    /\ UNCHANGED <<busVars, dispatchVars, lifeVars, speakVars, extractVars, drainVars>>

\* _audio_processing_loop: audio_queue.get(timeout=1) returns a segment,
\* which recognize_google then turns into text or an error
ProcessingGet ==
    /\ processing_thread = "wait"
    /\ audio_queue > 0
    /\ audio_queue' = audio_queue - 1
    /\ \E rec \in Recognitions : procRec' = rec
    /\ processing_thread' = "got"
    /\ idleTicks' = 0
    /\ op' = "processing_get"
    /\ UNCHANGED <<is_listening, wake_word_detected, command_queue,
                   callbackVars, audio_thread, captured, last,
                   startEvents, stopEvents>>
    /\ UNCHANGED <<busVars, dispatchVars, lifeVars, speakVars, extractVars, drainVars>>

\* _audio_processing_loop: audio_queue.get(timeout=1) raises queue.Empty
\* after one second without a segment, and the loop continues
ProcessingEmpty ==
    /\ processing_thread = "wait"
    /\ audio_queue = 0
    /\ idleTicks < MaxIdleTicks
    /\ idleTicks' = idleTicks + 1
    /\ op' = "processing_empty"
    /\ UNCHANGED <<is_listening, wake_word_detected, audio_queue, command_queue,
                   callbackVars, audio_thread, processing_thread, procRec,
                   captured, last, startEvents, stopEvents>>
    /\ UNCHANGED <<busVars, dispatchVars, lifeVars, speakVars, extractVars, drainVars>>

\* asyncio.create_task called on a thread that runs no event loop raises
\* RuntimeError, after the callback itself was called to build its argument
CreateTaskRaises == TRUE

\* _handle_command on queue q: the put, then the on_command callback
HandleCommand(q, command) ==
    [queue |-> Append(q, command),
     raised |-> on_command /\ CreateTaskRaises,
     cbs |-> IF on_command THEN {"on_command"} ELSE {}]

ProcessTextAlwaysArmed(text, armed, q) ==
    LET h == HandleCommand(q, text)
    IN  [wake |-> IF h.raised THEN armed ELSE FALSE,
         queue |-> h.queue, raised |-> h.raised, cbs |-> h.cbs]

\* the body of _process_audio's try block for recognized text
ProcessText(text, armed, q) ==
    IF ContainsWakeWord(text)
    THEN IF on_wake_word
         THEN [wake |-> TRUE, queue |-> q, raised |-> CreateTaskRaises,
               cbs |-> {"on_wake_word"}]
         ELSE LET command == ExtractCommand(text)
              IN  IF command # NoCommand
                  THEN LET h == HandleCommand(q, command)
                       IN  [wake |-> TRUE, queue |-> h.queue,
                            raised |-> h.raised, cbs |-> h.cbs]
                  ELSE [wake |-> TRUE, queue |-> q, raised |-> FALSE, cbs |-> {}]
    ELSE IF armed
         THEN LET h == HandleCommand(q, text)
              IN  [wake |-> IF h.raised THEN armed ELSE FALSE,
                   queue |-> h.queue, raised |-> h.raised, cbs |-> h.cbs]
         ELSE [wake |-> armed, queue |-> q, raised |-> FALSE, cbs |-> {}]

ProcessErrorDisarms(armed, q) ==
    [wake |-> FALSE, queue |-> q, raised |-> FALSE, cbs |-> {}]

\* _process_audio when recognize_google raises UnknownValueError or
\* RequestError: the except clauses pass or log, and nothing else is done
ProcessError(armed, q) ==
    [wake |-> armed, queue |-> q, raised |-> FALSE, cbs |-> {}]

\* _process_audio on the segment taken by ProcessingGet, then task_done
ProcessAudio ==
    /\ processing_thread = "got"
    /\ LET text == IF procRec.kind = "text" THEN Lower(procRec.text) ELSE <<>>
           r == IF procRec.kind = "text"
                THEN ProcessText(text, wake_word_detected, command_queue)
                ELSE ProcessError(wake_word_detected, command_queue)
       IN  /\ wake_word_detected' = r.wake
           /\ command_queue' = r.queue
           /\ last' = [kind |-> procRec.kind, text |-> text,
                       armedBefore |-> wake_word_detected,
                       enq |-> SubSeq(r.queue, Len(command_queue) + 1, Len(r.queue)),
                       raised |-> r.raised, cbs |-> r.cbs]
    /\ procRec' = NoRec
    /\ processing_thread' = "wait"
    /\ op' = "process_audio"
    /\ UNCHANGED <<is_listening, audio_queue, callbackVars, audio_thread,
                   captured, idleTicks, startEvents, stopEvents>>
    /\ UNCHANGED <<busVars, dispatchVars, lifeVars, speakVars, extractVars, drainVars>>

\* listen_for_commands
ListenForCommands ==
    /\ IF ~is_listening
       THEN /\ on_listening_start => startEvents < MaxEvents
            /\ is_listening' = TRUE
            /\ startEvents' = IF on_listening_start THEN startEvents + 1 ELSE startEvents
       ELSE UNCHANGED <<is_listening, startEvents>>
    /\ op' = "listen"
    /\ UNCHANGED <<wake_word_detected, audio_queue, command_queue,
                   callbackVars, audio_thread, processing_thread, procRec,
                   captured, idleTicks, last, stopEvents>>
    /\ UNCHANGED <<busVars, dispatchVars, lifeVars, speakVars, extractVars, drainVars>>

StopListeningUnguarded ==
    /\ on_listening_stop => stopEvents < MaxEvents
    /\ is_listening' = FALSE
    /\ wake_word_detected' = FALSE
    /\ stopEvents' = IF on_listening_stop THEN stopEvents + 1 ELSE stopEvents
    /\ op' = "stop"
    /\ UNCHANGED <<audio_queue, command_queue,
                   callbackVars, audio_thread, processing_thread, procRec,
                   captured, idleTicks, last, startEvents>>
    /\ UNCHANGED <<busVars, dispatchVars, lifeVars, speakVars, extractVars, drainVars>>

\* stop_listening
StopListening ==
    /\ IF is_listening
       THEN /\ on_listening_stop => stopEvents < MaxEvents
            /\ is_listening' = FALSE
            /\ wake_word_detected' = FALSE
            /\ stopEvents' = IF on_listening_stop THEN stopEvents + 1 ELSE stopEvents
       ELSE UNCHANGED <<is_listening, wake_word_detected, stopEvents>>
    /\ op' = "stop"
    /\ UNCHANGED <<audio_queue, command_queue,
                   callbackVars, audio_thread, processing_thread, procRec,
                   captured, idleTicks, last, startEvents>>
    /\ UNCHANGED <<busVars, dispatchVars, lifeVars, speakVars, extractVars, drainVars>>

\* get_pending_commands: drains command_queue into the returned list
GetPendingCommands ==
    /\ command_queue' = <<>>
    /\ op' = "get_pending"
    /\ UNCHANGED <<is_listening, wake_word_detected, audio_queue,
                   callbackVars, audio_thread, processing_thread, procRec,
                   captured, idleTicks, last, startEvents, stopEvents>>
    /\ UNCHANGED <<busVars, dispatchVars, lifeVars, speakVars, extractVars, drainVars>>

\* --------------------------------------------------------------- event bus
EventTypes == {"voice_command", "web_command"}

Handlers == {"h1", "h2", "h3"}

InitBus ==
    /\ event_handlers = [t \in {} |-> <<>>]
    /\ lastEmit = [type |-> "none", invoked |-> <<>>, failed |-> {},
                   raised |-> FALSE, registered |-> FALSE]

\* total number of registrations held by the registry
RECURSIVE TotalRegs(_, _)
TotalRegs(eh, ts) ==
    IF ts = {} THEN 0
    ELSE LET t == CHOOSE x \in ts : TRUE
         IN  Len(eh[t]) + TotalRegs(eh, ts \ {t})

\* register_event_handler
RegisterEventHandler(t, h) ==
    /\ TotalRegs(event_handlers, DOMAIN event_handlers) < MaxRegs
    /\ LET eh == IF t \notin DOMAIN event_handlers
                 THEN event_handlers @@ (t :> <<>>)
                 ELSE event_handlers
       IN  event_handlers' = [eh EXCEPT ![t] = Append(@, h)]
    /\ op' = "register"
    /\ UNCHANGED lastEmit
    /\ UNCHANGED <<speechVars, dispatchVars, lifeVars, speakVars, extractVars, drainVars>>

\* the for loop of emit_event from position i on; raisers is the set of
\* positions whose handler call raises.  Each call sits in its own
\* try/except, so a raising handler is logged and the loop goes on
RECURSIVE InvokeFromUnguarded(_, _, _)
InvokeFromUnguarded(hs, i, raisers) ==
    IF i > Len(hs)
    THEN [invoked |-> <<>>, failed |-> {}, raised |-> FALSE]
    ELSE IF i \in raisers
         THEN [invoked |-> <<hs[i]>>, failed |-> {i}, raised |-> TRUE]
         ELSE LET rest == InvokeFromUnguarded(hs, i + 1, raisers)
              IN  [invoked |-> <<hs[i]>> \o rest.invoked,
                   failed |-> rest.failed, raised |-> rest.raised]

RECURSIVE InvokeFrom(_, _, _)
InvokeFrom(hs, i, raisers) ==
    IF i > Len(hs)
    THEN [invoked |-> <<>>, failed |-> {}, raised |-> FALSE]
    ELSE LET rest == InvokeFrom(hs, i + 1, raisers)
         IN  [invoked |-> <<hs[i]>> \o rest.invoked,
              failed |-> rest.failed \cup (IF i \in raisers THEN {i} ELSE {}),
              raised |-> rest.raised]

EmitEventCreatesEntry(t, raisers) ==
    /\ raisers \subseteq (IF t \in DOMAIN event_handlers
                          THEN 1..Len(event_handlers[t]) ELSE {})
    /\ LET eh == IF t \notin DOMAIN event_handlers
                 THEN event_handlers @@ (t :> <<>>)
                 ELSE event_handlers
           r == InvokeFrom(eh[t], 1, raisers)
       IN  /\ event_handlers' = eh
           /\ lastEmit' = [type |-> t, invoked |-> r.invoked,
                           failed |-> r.failed, raised |-> r.raised,
                           registered |-> t \in DOMAIN event_handlers]
    /\ op' = "emit"
    /\ UNCHANGED <<speechVars, dispatchVars, lifeVars, speakVars, extractVars, drainVars>>

\* emit_event
EmitEvent(t, raisers) ==
    /\ raisers \subseteq (IF t \in DOMAIN event_handlers
                          THEN 1..Len(event_handlers[t]) ELSE {})
    /\ IF t \in DOMAIN event_handlers
       THEN LET r == InvokeFrom(event_handlers[t], 1, raisers)
            IN  lastEmit' = [type |-> t, invoked |-> r.invoked,
                             failed |-> r.failed, raised |-> r.raised,
                             registered |-> TRUE]
       ELSE lastEmit' = [type |-> t, invoked |-> <<>>, failed |-> {},
                         raised |-> FALSE, registered |-> FALSE]
    /\ op' = "emit"
    /\ UNCHANGED event_handlers
    /\ UNCHANGED <<speechVars, dispatchVars, lifeVars, speakVars, extractVars, drainVars>>

\* ------------------------------------------------------- command pipeline
\* confidences are in hundredths: 0.1 is 10
FallbackConfidence == 10

ErrorConfidence == 0

ErrorText == "I encountered an error processing that command. Please try again."

FallbackText == "I'm not sure how to help with that. Could you rephrase your request?"

NoAction == "None"

ErrorResponseConfident ==
    [text |-> ErrorText, action |-> NoAction, confidence |-> 100]

\* the JarvisResponse built in process_command's except clause
ErrorResponse ==
    [text |-> ErrorText, action |-> NoAction, confidence |-> ErrorConfidence]

\* the JarvisResponse built at the end of _handle_unknown_command
FallbackResponse ==
    [text |-> FallbackText, action |-> NoAction, confidence |-> FallbackConfidence]

\* a response returned by plugin_manager.try_plugins
PluginResponse ==
    [text |-> "plugin response", action |-> "plugin", confidence |-> 80]

\* the keys and values of the command_handlers dict literal in _route_command
command_handlers ==
    [automation     |-> "_handle_automation_command",
     information    |-> "_handle_information_command",
     system_control |-> "_handle_system_command",
     entertainment  |-> "_handle_entertainment_command",
     productivity   |-> "_handle_productivity_command",
     personal       |-> "_handle_personal_command"]

\* the handler methods class JarvisCore defines
DefinedHandlers ==
    {"_handle_automation_command", "_handle_information_command",
     "_handle_system_command", "_handle_unknown_command"}

\* what the NLP collaborator can return as intent
Intents == DOMAIN command_handlers \cup {"xyz"}

Sources == {"voice", "web"}

Commands == {"what time is it", "turn on the lights"}

\* every combination of collaborator outcomes
AllOutcomes ==
    [nlp : {"ok", "raise"}, intent : Intents, confidence : {5, 90},
     ctx : {"ok", "raise"}, collab : {"ok", "raise"},
     message : {"none", "done"}, query_type : {"weather", "time", "other"},
     plugin : {"none", "response"},
     store : {"ok", "raise"}, deliver : {"ok", "raise"}]

\* the outcome of a call that the intent's handler never makes, or that
\* follows a call that has already failed, keeps its default value
Relevant(o) ==
    /\ o.nlp = "raise" => o.intent = "xyz" /\ o.confidence = 5 /\ o.ctx = "ok"
    /\ (o.nlp = "raise" \/ o.ctx = "raise") =>
           /\ o.collab = "ok" /\ o.message = "none" /\ o.query_type = "other"
           /\ o.plugin = "none"
    /\ (o.nlp = "raise" \/ o.ctx = "raise" \/ o.collab = "raise") =>
           o.store = "ok" /\ o.deliver = "ok"
    /\ o.collab = "raise" =>
           /\ o.intent \in {"automation", "system_control", "xyz"}
           /\ o.message = "none" /\ o.plugin = "none"
    /\ o.message = "done" => o.intent \in {"automation", "system_control"}
    /\ o.query_type # "other" => o.intent = "information"
    /\ o.plugin = "response" => o.intent = "xyz"

\* the outcomes of the collaborator calls one process_command run can make
Outcomes == {o \in AllOutcomes : Relevant(o)}

Raised == [raised |-> TRUE, response |-> ErrorResponse]

Returned(r) == [raised |-> FALSE, response |-> r]

\* _handle_automation_command
HandleAutomationCommand(o) ==
    IF o.collab = "raise" THEN Raised
    ELSE Returned([text |-> IF o.message = "none"
                            THEN "Automation executed successfully"
                            ELSE o.message,
                   action |-> "automation", confidence |-> o.confidence])

\* _handle_information_command
HandleInformationCommand(o) ==
    Returned([text |-> CASE o.query_type = "weather" ->
                              "Weather information is not available right now."
                         [] o.query_type = "time" -> "The current time is HH:MM"
                         [] OTHER -> "I don't have specific information right now.",
              action |-> "information", confidence |-> o.confidence])

\* _handle_system_command
HandleSystemCommand(o) ==
    IF o.collab = "raise" THEN Raised
    ELSE Returned([text |-> IF o.message = "none"
                            THEN "System command executed"
                            ELSE o.message,
                   action |-> "system_control", confidence |-> o.confidence])

\* _handle_unknown_command
HandleUnknownCommand(o) ==
    IF o.collab = "raise" THEN Raised
    ELSE IF o.plugin = "response" THEN Returned(PluginResponse)
    ELSE Returned(FallbackResponse)

\* calling the bound method named m
CallHandler(m, o) ==
    CASE m = "_handle_automation_command" -> HandleAutomationCommand(o)
      [] m = "_handle_information_command" -> HandleInformationCommand(o)
      [] m = "_handle_system_command" -> HandleSystemCommand(o)
      [] OTHER -> HandleUnknownCommand(o)

\* _route_command: the dict literal looks every handler attribute up on self
\* before any routing happens, and a name the class does not define raises
\* AttributeError there
RouteCommand(o) ==
    IF \E i \in DOMAIN command_handlers : command_handlers[i] \notin DefinedHandlers
    THEN Raised
    ELSE CallHandler(IF o.intent \in DOMAIN command_handlers
                     THEN command_handlers[o.intent]
                     ELSE "_handle_unknown_command", o)

\* the record _store_interaction hands to memory_manager.store_interaction
Interaction(command, response, source) ==
    [command |-> command, response |-> response.text, source |-> source,
     confidence |-> response.confidence]

\* a finished run: the response returned, whether an exception left
\* process_command, the steps that were started, what was stored and delivered
Run(response, raised, steps, stored, delivered) ==
    [response |-> response, raised |-> raised, steps |-> steps,
     stored |-> stored, delivered |-> delivered]

Reraised(steps, stored, delivered) ==
    Run(ErrorResponse, TRUE, steps, stored, delivered)

\* the except clause of process_command
Caught(steps, stored, delivered) ==
    Run(ErrorResponse, FALSE, steps, stored, delivered)

\* _deliver_response and the return: speak catches what the TTS engine
\* raises, send_response is called unguarded
Deliver(o, source, response, steps, stored) ==
    LET s == Append(steps, "deliver")
    IN  IF source = "voice"
        THEN Run(response, FALSE, s, stored,
                 IF o.deliver = "ok" THEN <<response>> ELSE <<>>)
        ELSE IF source = "web"
        THEN IF o.deliver = "ok"
             THEN Run(response, FALSE, s, stored, <<response>>)
             ELSE Caught(s, stored, <<>>)
        ELSE Run(response, FALSE, s, stored, <<>>)

\* process_command
Pipeline(command, source, o) ==
    IF o.nlp = "raise" THEN Caught(<<"nlp">>, <<>>, <<>>)
    ELSE IF o.ctx = "raise" THEN Caught(<<"nlp", "context">>, <<>>, <<>>)
    ELSE LET routed == RouteCommand(o)
             s3 == <<"nlp", "context", "route">>
         IN  IF routed.raised THEN Caught(s3, <<>>, <<>>)
             ELSE IF o.store = "raise" THEN Caught(Append(s3, "store"), <<>>, <<>>)
             ELSE Deliver(o, source, routed.response, Append(s3, "store"),
                          <<Interaction(command, routed.response, source)>>)

NoResult ==
    [command |-> "", source |-> "", o |-> CHOOSE x \in Outcomes : TRUE,
     run |-> Run(ErrorResponse, FALSE, <<>>, <<>>, <<>>), called |-> FALSE]

InitDispatch ==
    /\ interactions = <<>>
    /\ outbox = <<>>
    /\ result = NoResult

\* one call of process_command, start to return
ProcessCommand(command, source, o) ==
    LET run == Pipeline(command, source, o)
    IN  /\ Len(interactions) + Len(run.stored) <= MaxInteractions
        /\ Len(outbox) + Len(run.delivered) <= MaxInteractions
        /\ interactions' = interactions \o run.stored
        /\ outbox' = outbox \o run.delivered
        /\ result' = [command |-> command, source |-> source, o |-> o,
                      run |-> run, called |-> TRUE]
        /\ op' = "process_command"
        /\ UNCHANGED <<speechVars, busVars, lifeVars, speakVars, extractVars, drainVars>>

\* --------------------------------------------------------------- lifecycle
Components == {"memory", "nlp", "speech", "automation", "plugins", "web"}

InitOrderSwapped == <<"memory", "speech", "nlp", "automation", "plugins", "web">>

\* the order of the initialize calls in JarvisCore.initialize
InitOrder == <<"memory", "nlp", "speech", "automation", "plugins", "web">>

\* the order of the shutdown calls in JarvisCore.shutdown
ShutdownOrder == <<"web", "automation", "speech", "nlp", "memory">>

\* the four coroutines JarvisApplication.run gathers
Loops == {"voice", "web", "monitor", "health"}

InitLife ==
    /\ appPc = "init"
    /\ exitCode = -1
    /\ comp = [c \in Components |-> "none"]
    /\ is_active = FALSE
    /\ running = FALSE
    /\ handlersInstalled = FALSE
    /\ loops = [l \in Loops |-> "notstarted"]
    /\ loopFails = {}
    /\ shut = <<>>
    /\ shutdownCalls = [c \in Components |-> 0]
    /\ signals = 0

\* the process ends: daemon threads end with it
KillDaemon(thread) == IF thread = "none" THEN "none" ELSE "dead"

\* JarvisCore.initialize: the next component is constructed and its
\* initialize (load_plugins) is awaited
InitStart ==
    /\ appPc = "init"
    /\ \A c \in Components : comp[c] \in {"none", "ready"}
    /\ \E k \in 1..Len(InitOrder) :
         /\ k = Cardinality({c \in Components : comp[c] = "ready"}) + 1
         /\ comp' = [comp EXCEPT ![InitOrder[k]] = "initializing"]
    /\ op' = "lifecycle"
    /\ UNCHANGED <<appPc, exitCode, is_active, running, handlersInstalled, loops,
                   loopFails, shut, shutdownCalls, signals>>
    /\ UNCHANGED <<speechVars, busVars, dispatchVars, speakVars, extractVars, drainVars>>

\* JarvisCore.initialize: the awaited initialize returns or raises.  A raise
\* is logged and re-raised, and JarvisApplication.initialize turns it into
\* False.  SpeechEngine.initialize ends by starting the two audio threads
InitFinish(ok) ==
    /\ appPc = "init"
    /\ \E c \in Components :
         /\ comp[c] = "initializing"
         /\ comp' = [comp EXCEPT ![c] = IF ok THEN "ready" ELSE "failed"]
         /\ IF ok /\ c = "speech"
            THEN audio_thread' = "check" /\ processing_thread' = "wait"
            ELSE UNCHANGED <<audio_thread, processing_thread>>
    /\ appPc' = IF ok THEN "init" ELSE "init_failed"
    /\ op' = "lifecycle"
    /\ UNCHANGED <<exitCode, is_active, running, handlersInstalled, loops,
                   loopFails, shut, shutdownCalls, signals>>
    /\ UNCHANGED <<is_listening, wake_word_detected, audio_queue, command_queue,
                   callbackVars, procRec, captured, idleTicks, last,
                   startEvents, stopEvents>>
    /\ UNCHANGED <<busVars, dispatchVars, speakVars, extractVars, drainVars>>

\* JarvisCore.initialize after the last component: _setup_event_handlers,
\* then is_active = True
InitComplete ==
    /\ appPc = "init"
    /\ \A c \in Components : comp[c] = "ready"
    /\ event_handlers' =
         [voice_command      |-> <<"_handle_voice_command">>,
          wake_word_detected |-> <<"_handle_wake_word">>,
          system_alert       |-> <<"_handle_system_alert">>,
          automation_trigger |-> <<"_handle_automation">>,
          web_command        |-> <<"_handle_web_command">>]
    /\ is_active' = TRUE
    /\ appPc' = "initialized"
    /\ op' = "lifecycle"
    /\ UNCHANGED <<exitCode, comp, running, handlersInstalled, loops,
                   loopFails, shut, shutdownCalls, signals>>
    /\ UNCHANGED <<speechVars, lastEmit, dispatchVars, speakVars, extractVars, drainVars>>

\* JarvisApplication.initialize installs the signal handlers and returns
\* True; run sets running and gathers the four loops
RunStart ==
    /\ appPc = "initialized"
    /\ handlersInstalled' = TRUE
    /\ running' = TRUE
    /\ loops' = [l \in Loops |-> "running"]
    /\ appPc' = "running"
    /\ op' = "lifecycle"
    /\ UNCHANGED <<exitCode, comp, is_active, loopFails, shut, shutdownCalls, signals>>
    /\ UNCHANGED <<speechVars, busVars, dispatchVars, speakVars, extractVars, drainVars>>

ContinueOnInitFailure ==
    /\ appPc = "init_failed"
    /\ handlersInstalled' = TRUE
    /\ running' = TRUE
    /\ loops' = [l \in Loops |-> "running"]
    /\ appPc' = "running"
    /\ op' = "lifecycle"
    /\ UNCHANGED <<exitCode, comp, is_active, loopFails, shut, shutdownCalls, signals>>
    /\ UNCHANGED <<speechVars, busVars, dispatchVars, speakVars, extractVars, drainVars>>

\* JarvisApplication.run: initialize returned False, sys.exit(1)
ExitOnInitFailure ==
    /\ appPc = "init_failed"
    /\ appPc' = "exited"
    /\ exitCode' = 1
    /\ audio_thread' = KillDaemon(audio_thread)
    /\ processing_thread' = KillDaemon(processing_thread)
    /\ op' = "lifecycle"
    /\ UNCHANGED <<comp, is_active, running, handlersInstalled, loops,
                   loopFails, shut, shutdownCalls, signals>>
    /\ UNCHANGED <<is_listening, wake_word_detected, audio_queue, command_queue,
                   callbackVars, procRec, captured, idleTicks, last,
                   startEvents, stopEvents>>
    /\ UNCHANGED <<busVars, dispatchVars, speakVars, extractVars, drainVars>>

\* start_voice_listening, one pass of the while loop: the flag test, then
\* listen_for_commands inside try/except
VoiceLoop(fails) ==
    /\ appPc # "exited"
    /\ loops["voice"] = "running"
    /\ IF ~is_active
       THEN /\ loops' = [loops EXCEPT !["voice"] = "returned"]
            /\ UNCHANGED <<is_listening, loopFails>>
       ELSE /\ is_listening' = IF fails THEN is_listening ELSE TRUE
            /\ fails => Cardinality(loopFails \cup {"voice"}) <= MaxLoopFails
            /\ loopFails' = IF fails THEN loopFails \cup {"voice"} ELSE loopFails
            /\ UNCHANGED loops
    /\ op' = "lifecycle"
    /\ UNCHANGED <<appPc, exitCode, comp, is_active, running, handlersInstalled,
                   shut, shutdownCalls, signals>>
    /\ UNCHANGED <<wake_word_detected, audio_queue, command_queue,
                   callbackVars, audio_thread, processing_thread, procRec,
                   captured, idleTicks, last, startEvents, stopEvents>>
    /\ UNCHANGED <<busVars, dispatchVars, speakVars, extractVars, drainVars>>

\* a new invocation of JarvisApplication.shutdown
NewShutdown(origin) == [pc |-> "start", idx |-> 1, origin |-> origin]

\* start_web_interface: the awaited start_server returns or raises.  Nothing
\* guards it, so a raise leaves the coroutine, asyncio.gather re-raises it in
\* run, and run's except clause awaits shutdown
WebLoop(fails) ==
    /\ appPc # "exited"
    /\ loops["web"] = "running"
    /\ loops' = [loops EXCEPT !["web"] = IF fails THEN "raised" ELSE "returned"]
    /\ fails => Cardinality(loopFails \cup {"web"}) <= MaxLoopFails
    /\ loopFails' = IF fails THEN loopFails \cup {"web"} ELSE loopFails
    /\ IF fails /\ appPc = "running"
       THEN /\ appPc' = "critical"
            /\ shut' = Append(shut, NewShutdown("critical"))
       ELSE UNCHANGED <<appPc, shut>>
    /\ op' = "lifecycle"
    /\ UNCHANGED <<exitCode, comp, is_active, running, handlersInstalled,
                   shutdownCalls, signals>>
    /\ UNCHANGED <<speechVars, busVars, dispatchVars, speakVars, extractVars, drainVars>>

\* start_background_monitoring, one pass of the while loop
MonitorLoop(fails) ==
    /\ appPc # "exited"
    /\ loops["monitor"] = "running"
    /\ IF ~is_active
       THEN /\ loops' = [loops EXCEPT !["monitor"] = "returned"]
            /\ UNCHANGED loopFails
       ELSE /\ fails
            /\ Cardinality(loopFails \cup {"monitor"}) <= MaxLoopFails
            /\ loopFails' = loopFails \cup {"monitor"}
            /\ UNCHANGED loops
    /\ op' = "lifecycle"
    /\ UNCHANGED <<appPc, exitCode, comp, is_active, running, handlersInstalled,
                   shut, shutdownCalls, signals>>
    /\ UNCHANGED <<speechVars, busVars, dispatchVars, speakVars, extractVars, drainVars>>

\* _health_check_loop, one pass of the while loop
HealthLoop(fails) ==
    /\ appPc # "exited"
    /\ loops["health"] = "running"
    /\ IF ~running
       THEN /\ loops' = [loops EXCEPT !["health"] = "returned"]
            /\ UNCHANGED loopFails
       ELSE /\ fails
            /\ Cardinality(loopFails \cup {"health"}) <= MaxLoopFails
            /\ loopFails' = loopFails \cup {"health"}
            /\ UNCHANGED loops
    /\ op' = "lifecycle"
    /\ UNCHANGED <<appPc, exitCode, comp, is_active, running, handlersInstalled,
                   shut, shutdownCalls, signals>>
    /\ UNCHANGED <<speechVars, busVars, dispatchVars, speakVars, extractVars, drainVars>>

\* JarvisApplication.run: gather returns when all four coroutines have
\* returned, run returns and asyncio.run ends the process
RunReturns ==
    /\ appPc = "running"
    /\ \A l \in Loops : loops[l] = "returned"
    /\ appPc' = "exited"
    /\ exitCode' = 0
    /\ audio_thread' = KillDaemon(audio_thread)
    /\ processing_thread' = KillDaemon(processing_thread)
    /\ op' = "lifecycle"
    /\ UNCHANGED <<comp, is_active, running, handlersInstalled, loops,
                   loopFails, shut, shutdownCalls, signals>>
    /\ UNCHANGED <<is_listening, wake_word_detected, audio_queue, command_queue,
                   callbackVars, procRec, captured, idleTicks, last,
                   startEvents, stopEvents>>
    /\ UNCHANGED <<busVars, dispatchVars, speakVars, extractVars, drainVars>>

\* signal_handler: SIGINT or SIGTERM arrives and a task running
\* JarvisApplication.shutdown is created
Signal ==
    /\ handlersInstalled
    /\ appPc \in {"running", "critical"}
    /\ signals < MaxSignals
    /\ signals' = signals + 1
    /\ shut' = Append(shut, NewShutdown("signal"))
    /\ op' = "lifecycle"
    /\ UNCHANGED <<appPc, exitCode, comp, is_active, running, handlersInstalled,
                   loops, loopFails, shutdownCalls>>
    /\ UNCHANGED <<speechVars, busVars, dispatchVars, speakVars, extractVars, drainVars>>

ShutdownBeginKeepsActive(t) ==
    /\ appPc # "exited"
    /\ shut[t].pc = "start"
    /\ running' = FALSE
    /\ shut' = [shut EXCEPT ![t].pc = "components"]
    /\ op' = "lifecycle"
    /\ UNCHANGED <<appPc, exitCode, comp, is_active, handlersInstalled, loops,
                   loopFails, shutdownCalls, signals>>
    /\ UNCHANGED <<speechVars, busVars, dispatchVars, speakVars, extractVars, drainVars>>

\* JarvisApplication.shutdown up to the first await: running = False, then
\* JarvisCore.shutdown sets is_active = False
ShutdownBegin(t) ==
    /\ appPc # "exited"
    /\ shut[t].pc = "start"
    /\ running' = FALSE
    /\ is_active' = FALSE
    /\ shut' = [shut EXCEPT ![t].pc = "components"]
    /\ op' = "lifecycle"
    /\ UNCHANGED <<appPc, exitCode, comp, handlersInstalled, loops, loopFails,
                   shutdownCalls, signals>>
    /\ UNCHANGED <<speechVars, busVars, dispatchVars, speakVars, extractVars, drainVars>>

\* JarvisCore.shutdown: the next `if component: await component.shutdown()`.
\* A raise leaves JarvisCore.shutdown and JarvisApplication.shutdown; when
\* run awaited the shutdown, it leaves run too and main calls sys.exit(1).
\* SpeechEngine.shutdown calls stop_listening
ShutdownComponent(t, ok) ==
    /\ appPc # "exited"
    /\ shut[t].pc = "components"
    /\ shut[t].idx <= Len(ShutdownOrder)
    /\ LET c == ShutdownOrder[shut[t].idx]
       IN  /\ shutdownCalls' = [shutdownCalls EXCEPT ![c] = @ + 1]
           /\ comp' = [comp EXCEPT ![c] = IF ok THEN "stopped" ELSE @]
           /\ IF ok /\ c = "speech"
              THEN is_listening' = FALSE /\ wake_word_detected' = FALSE
              ELSE UNCHANGED <<is_listening, wake_word_detected>>
    /\ shut' = IF ok THEN [shut EXCEPT ![t].idx = @ + 1]
                     ELSE [shut EXCEPT ![t].pc = "failed"]
    /\ IF ~ok /\ shut[t].origin = "critical"
       THEN /\ appPc' = "exited"
            /\ exitCode' = 1
            /\ audio_thread' = KillDaemon(audio_thread)
            /\ processing_thread' = KillDaemon(processing_thread)
       ELSE UNCHANGED <<appPc, exitCode, audio_thread, processing_thread>>
    /\ op' = "lifecycle"
    /\ UNCHANGED <<is_active, running, handlersInstalled, loops, loopFails, signals>>
    /\ UNCHANGED <<audio_queue, command_queue, callbackVars, procRec, captured,
                   idleTicks, last, startEvents, stopEvents>>
    /\ UNCHANGED <<busVars, dispatchVars, speakVars, extractVars, drainVars>>

\* JarvisApplication.shutdown after JarvisCore.shutdown returned: sys.exit(0)
ShutdownExit(t) ==
    /\ appPc # "exited"
    /\ shut[t].pc = "components"
    /\ shut[t].idx > Len(ShutdownOrder)
    /\ shut' = [shut EXCEPT ![t].pc = "exit"]
    /\ appPc' = "exited"
    /\ exitCode' = 0
    /\ audio_thread' = KillDaemon(audio_thread)
    /\ processing_thread' = KillDaemon(processing_thread)
    /\ op' = "lifecycle"
    /\ UNCHANGED <<comp, is_active, running, handlersInstalled, loops,
                   loopFails, shutdownCalls, signals>>
    /\ UNCHANGED <<is_listening, wake_word_detected, audio_queue, command_queue,
                   callbackVars, procRec, captured, idleTicks, last,
                   startEvents, stopEvents>>
    /\ UNCHANGED <<busVars, dispatchVars, speakVars, extractVars, drainVars>>

\* ------------------------------------------------------------------- speak
\* the callers that can have a speak request in flight
Speakers == 1..MaxSpeakers

SpeakTexts == {"response one", "response two"}

IdleSpeaker == [pc |-> "idle", text |-> "", interrupt |-> FALSE, stopped |-> FALSE]

InitSpeak == speakers = [s \in Speakers |-> IdleSpeaker]

\* pyttsx3's _inLoop: a runAndWait is in progress
InLoop == \E s \in Speakers : speakers[s].pc = "speaking"

\* speak up to its await: with interrupt set and the engine in its loop,
\* tts_engine.stop() ends the utterances being spoken; then _speak_sync is
\* handed to the default executor
SpeakCall(s, text, interrupt) ==
    /\ speakers[s].pc = "idle"
    /\ speakers' =
         [x \in Speakers |->
            IF x = s
            THEN [pc |-> "submitted", text |-> text, interrupt |-> interrupt,
                  stopped |-> FALSE]
            ELSE IF interrupt /\ speakers[x].pc = "speaking"
                 THEN [speakers[x] EXCEPT !.stopped = TRUE]
                 ELSE speakers[x]]
    /\ op' = "speak"
    /\ UNCHANGED <<speechVars, busVars, dispatchVars, lifeVars, extractVars, drainVars>>

\* a worker thread of the executor starts _speak_sync: say, then runAndWait
SpeakSyncStart(s) ==
    /\ speakers[s].pc = "submitted"
    /\ speakers' = [speakers EXCEPT ![s].pc = "speaking"]
    /\ op' = "speak_sync_start"
    /\ UNCHANGED <<speechVars, busVars, dispatchVars, lifeVars, extractVars, drainVars>>

\* _speak_sync returns or raises; speak logs a raise and returns
SpeakSyncEnd(s) ==
    /\ speakers[s].pc = "speaking"
    /\ speakers' = [speakers EXCEPT ![s] = IdleSpeaker]
    /\ op' = "speak_sync_end"
    /\ UNCHANGED <<speechVars, busVars, dispatchVars, lifeVars, extractVars, drainVars>>

\* ------------------------------------------------------ wake-phrase lists
T_TwoPhrases ==
    <<"j", "a", "r", "v", "i", "s", " ", "p", "l", "a", "y", " ", "o", "k", " ", "j", "a", "r", "v", "i", "s">>
T_HeyLast ==
    <<"o", "k", " ", "j", "a", "r", "v", "i", "s", " ", "s", "t", "o", "p", " ", "h", "e", "y", " ", "j", "a", "r", "v", "i", "s">>
T_OkThenHey ==
    <<"o", "k", " ", "j", "a", "r", "v", "i", "s", " ", "h", "e", "y", " ", "j", "a", "r", "v", "i", "s", " ", "g", "o", " ", "o", "n">>

\* the texts _extract_command_from_wake_phrase is called with
ExtractTexts ==
    {Lower(u) : u \in Utterances} \cup {T_TwoPhrases, T_HeyLast, T_OkThenHey}

Phrases == {W_jarvis, W_hey_jarvis, W_ok_jarvis}

\* the lists self.wake_words can be configured with: the phrases in any
\* order, without repetition
WordLists ==
    {w \in UNION {[1..n -> Phrases] : n \in 1..Cardinality(Phrases)} :
        \A i, j \in DOMAIN w : i # j => w[i] # w[j]}

InitExtract ==
    /\ xwords = wake_words
    /\ xtext = <<>>
    /\ xcommand = NoCommand

\* one call of _extract_command_from_wake_phrase
ExtractCommandFromWakePhrase(text) ==
    /\ xtext' = text
    /\ xcommand' = ExtractFromList(xwords, text, 1)
    /\ op' = "extract"
    /\ UNCHANGED xwords
    /\ UNCHANGED <<speechVars, busVars, dispatchVars, lifeVars, speakVars, drainVars>>

\* ------------------------------------------------------------------- drain
\* the n-th command put on the queue: the commands differ from one another
PutCommand(n) == [i \in 1..n |-> "x"]

\* two callers that can have a get_pending_commands call in progress
Drainers == {"d1", "d2"}

IdleDrainer == [pc |-> "idle", got |-> <<>>, atCall |-> <<>>]

InitDrain ==
    /\ drainers = [d \in Drainers |-> IdleDrainer]
    /\ offered = <<>>
    /\ returned = <<>>

\* _handle_command on the processing thread: command_queue.put(command)
Put ==
    /\ Len(offered) < MaxPuts
    /\ command_queue' = Append(command_queue, PutCommand(Len(offered) + 1))
    /\ offered' = Append(offered, PutCommand(Len(offered) + 1))
    /\ op' = "put"
    /\ UNCHANGED <<drainers, returned>>
    /\ UNCHANGED <<is_listening, wake_word_detected, audio_queue,
                   callbackVars, audio_thread, processing_thread, procRec,
                   captured, idleTicks, last, startEvents, stopEvents>>
    /\ UNCHANGED <<busVars, dispatchVars, lifeVars, speakVars, extractVars>>

\* get_pending_commands is called: commands = []
DrainStart(d) ==
    /\ drainers[d].pc = "idle"
    /\ drainers' = [drainers EXCEPT ![d] =
                      [pc |-> "test", got |-> <<>>, atCall |-> command_queue]]
    /\ op' = "drain_start"
    /\ UNCHANGED <<offered, returned>>
    /\ UNCHANGED <<speechVars, busVars, dispatchVars, lifeVars, speakVars, extractVars>>

\* get_pending_commands: `while not self.command_queue.empty()`
DrainTest(d) ==
    /\ drainers[d].pc = "test"
    /\ drainers' = [drainers EXCEPT ![d].pc =
                      IF command_queue = <<>> THEN "done" ELSE "get"]
    /\ op' = "drain_test"
    /\ UNCHANGED <<offered, returned>>
    /\ UNCHANGED <<speechVars, busVars, dispatchVars, lifeVars, speakVars, extractVars>>

DrainGetPeek(d) ==
    /\ drainers[d].pc = "get"
    /\ IF command_queue = <<>>
       THEN drainers' = [drainers EXCEPT ![d].pc = "done"]
       ELSE drainers' = [drainers EXCEPT ![d].pc = "test",
                                         ![d].got = Append(@, Head(command_queue))]
    /\ op' = "drain_get"
    /\ UNCHANGED <<offered, returned>>
    /\ UNCHANGED <<speechVars, busVars, dispatchVars, lifeVars, speakVars, extractVars>>

\* get_pending_commands: commands.append(self.command_queue.get_nowait());
\* queue.Empty, raised when another caller emptied the queue since the test,
\* breaks the loop
DrainGet(d) ==
    /\ drainers[d].pc = "get"
    /\ IF command_queue = <<>>
       THEN /\ drainers' = [drainers EXCEPT ![d].pc = "done"]
            /\ UNCHANGED command_queue
       ELSE /\ drainers' = [drainers EXCEPT ![d].pc = "test",
                                            ![d].got = Append(@, Head(command_queue))]
            /\ command_queue' = Tail(command_queue)
    /\ op' = "drain_get"
    /\ UNCHANGED <<offered, returned>>
    /\ UNCHANGED <<is_listening, wake_word_detected, audio_queue,
                   callbackVars, audio_thread, processing_thread, procRec,
                   captured, idleTicks, last, startEvents, stopEvents>>
    /\ UNCHANGED <<busVars, dispatchVars, lifeVars, speakVars, extractVars>>

\* get_pending_commands: return commands
DrainReturn(d) ==
    /\ drainers[d].pc = "done"
    /\ returned' = returned \o drainers[d].got
    /\ drainers' = [drainers EXCEPT ![d] = IdleDrainer]
    /\ op' = "drain_return"
    /\ UNCHANGED offered
    /\ UNCHANGED <<speechVars, busVars, dispatchVars, lifeVars, speakVars, extractVars>>

\* ------------------------------------------------------- specifications
\* every part of the program as constructed
InitComponents ==
    /\ InitSpeech
    /\ InitBus
    /\ InitDispatch
    /\ InitLife
    /\ InitSpeak
    /\ InitDrain
    /\ op = "init"

Init ==
    /\ InitComponents
    /\ InitExtract

\* the speech engine under any order of calls by its owner
Next ==
    \/ StartAudioThreads
    \/ CaptureCheck
    \/ CaptureListen
    \/ ProcessingGet
    \/ ProcessingEmpty
    \/ ProcessAudio
    \/ ListenForCommands
    \/ StopListening
    \/ GetPendingCommands

Spec == Init /\ [][Next]_vars

\* JarvisCore as constructed: it assigns none of its speech engine's callbacks
InitCore ==
    /\ Init
    /\ ~on_wake_word /\ ~on_command /\ ~on_listening_start /\ ~on_listening_stop

NextBus ==
    \/ \E t \in EventTypes, h \in Handlers : RegisterEventHandler(t, h)
    \/ \E t \in EventTypes, raisers \in SUBSET (1..MaxRegs) : EmitEvent(t, raisers)

SpecBus == InitCore /\ [][NextBus]_vars

NextDispatch ==
    \E command \in Commands, source \in Sources, o \in Outcomes :
        ProcessCommand(command, source, o)

SpecDispatch == InitCore /\ [][NextDispatch]_vars

\* the speech engine inside JarvisCore, its threads and its callers
\* scheduled fairly
SpecFair ==
    /\ InitCore
    /\ [][Next]_vars
    /\ WF_vars(CaptureCheck)
    /\ WF_vars(CaptureListen)
    /\ WF_vars(ProcessingGet)
    /\ WF_vars(ProcessingEmpty)
    /\ WF_vars(ProcessAudio)
    /\ WF_vars(ListenForCommands)

\* JarvisApplication.run from start to process exit
NextLife ==
    \/ InitStart
    \/ \E ok \in BOOLEAN : InitFinish(ok)
    \/ InitComplete
    \/ RunStart
    \/ ExitOnInitFailure
    \/ CaptureCheck
    \/ \E fails \in BOOLEAN : VoiceLoop(fails)
    \/ \E fails \in BOOLEAN : WebLoop(fails)
    \/ \E fails \in BOOLEAN : MonitorLoop(fails)
    \/ \E fails \in BOOLEAN : HealthLoop(fails)
    \/ RunReturns
    \/ Signal
    \/ \E t \in 1..Len(shut) : ShutdownBegin(t)
    \/ \E t \in 1..Len(shut), ok \in BOOLEAN : ShutdownComponent(t, ok)
    \/ \E t \in 1..Len(shut) : ShutdownExit(t)

SpecLife == InitCore /\ [][NextLife]_vars

\* JarvisApplication.run with the capture thread acquiring segments, in the
\* runs where start_server and the components' initialize and shutdown calls
\* do not raise
NextStop ==
    \/ InitStart
    \/ InitFinish(TRUE)
    \/ InitComplete
    \/ RunStart
    \/ CaptureCheck
    \/ CaptureListen
    \/ \E fails \in BOOLEAN : VoiceLoop(fails)
    \/ WebLoop(FALSE)
    \/ \E fails \in BOOLEAN : MonitorLoop(fails)
    \/ \E fails \in BOOLEAN : HealthLoop(fails)
    \/ RunReturns
    \/ Signal
    \/ \E t \in 1..Len(shut) : ShutdownBegin(t)
    \/ \E t \in 1..Len(shut) : ShutdownComponent(t, TRUE)
    \/ \E t \in 1..Len(shut) : ShutdownExit(t)

SpecStop == InitCore /\ [][NextStop]_vars

\* _extract_command_from_wake_phrase under every configuration of wake_words
InitWordLists ==
    /\ InitComponents
    /\ ~on_wake_word /\ ~on_command /\ ~on_listening_start /\ ~on_listening_stop
    /\ xwords \in WordLists
    /\ xtext = <<>>
    /\ xcommand = NoCommand

NextExtract == \E text \in ExtractTexts : ExtractCommandFromWakePhrase(text)

SpecExtract == InitWordLists /\ [][NextExtract]_vars

\* callers of get_pending_commands running concurrently with the producer
NextDrain ==
    \/ Put
    \/ \E d \in Drainers : DrainStart(d)
    \/ \E d \in Drainers : DrainTest(d)
    \/ \E d \in Drainers : DrainGet(d)
    \/ \E d \in Drainers : DrainReturn(d)

SpecDrain == InitCore /\ [][NextDrain]_vars

\* concurrent callers of SpeechEngine.speak
NextSpeak ==
    \/ \E s \in Speakers, text \in SpeakTexts, interrupt \in BOOLEAN :
         SpeakCall(s, text, interrupt)
    \/ \E s \in Speakers : SpeakSyncStart(s)
    \/ \E s \in Speakers : SpeakSyncEnd(s)

SpecSpeak == InitCore /\ [][NextSpeak]_vars

\* ------------------------------------------------------------- properties
\* "what time is it" and "hey jarvis what time is it"
T_WhatTime ==
    <<"w", "h", "a", "t", " ", "t", "i", "m", "e", " ", "i", "s", " ", "i", "t">>
T_WakeAndCommand ==
    <<"h", "e", "y", " ", "j", "a", "r", "v", "i", "s", " ", "w", "h", "a", "t", " ", "t", "i", "m", "e", " ", "i", "s", " ", "i", "t">>

\* the last step was a _process_audio call on recognized text
Processed == op = "process_audio" /\ last.kind = "text"

\* C1: an utterance with a wake phrase and a residual longer than the minimum,
\* processed in Idle, enqueues exactly the trimmed residual and leaves the
\* detector Idle
C1_SingleShot ==
    (/\ Processed
     /\ ~last.armedBefore
     /\ last.text = T_WakeAndCommand)
    => (last.enq = <<T_WhatTime>> /\ ~wake_word_detected)

C3_ArmedTimeout ==
    idleTicks = MaxIdleTicks => ~wake_word_detected

\* C4: an emit on a registered type invokes every registration once, in
\* registration order, whichever handlers raise, and does not raise itself
C4_FaultIsolation ==
    (op = "emit" /\ lastEmit.registered)
    => (/\ lastEmit.invoked = event_handlers[lastEmit.type]
        /\ ~lastEmit.raised)

\* three registrations, one handler registered twice, the second one raising
C4_Witness ==
    /\ op = "emit"
    /\ lastEmit.invoked = <<"h1", "h2", "h1">>
    /\ lastEmit.failed = {2}

\* the NLP intent of the last command has no entry in command_handlers
UnmappedIntent == result.o.nlp = "ok" /\ result.o.intent \notin DOMAIN command_handlers

\* C6: a command with an unmapped intent that no plugin answers gets a
\* response of confidence at most 0.1 with non-empty text, whatever
\* persistence and delivery do
C6_UnknownFallback ==
    (/\ result.called
     /\ UnmappedIntent
     /\ result.o.collab = "ok"
     /\ result.o.plugin = "none")
    => (/\ ~result.run.raised
        /\ result.run.response.confidence <= FallbackConfidence
        /\ result.run.response.text # "")

\* an unmapped intent, no plugin response, and a failing store_interaction
C6_Witness ==
    /\ result.called
    /\ UnmappedIntent
    /\ result.o.ctx = "ok"
    /\ result.o.collab = "ok"
    /\ result.o.plugin = "none"
    /\ result.o.store = "raise"
    /\ result.source = "voice"

\* C7: listening_stop is fired only by a stop call that turns listening off,
\* listening_start only by a start call that turns it on, and a stop while
\* stopped or a start while listening changes nothing of the engine
C7_StartStopIdempotent ==
    [][/\ stopEvents' # stopEvents
            => (op' = "stop" /\ is_listening /\ ~is_listening'
                /\ stopEvents' = stopEvents + 1)
       /\ startEvents' # startEvents
            => (op' = "listen" /\ ~is_listening /\ is_listening'
                /\ startEvents' = startEvents + 1)
       /\ (op' = "stop" /\ ~is_listening) => UNCHANGED speechVars
       /\ (op' = "listen" /\ is_listening) => UNCHANGED speechVars]_vars

\* a stop call made while stopped, after one start and one stop that fired
C7_Witness ==
    /\ op = "stop"
    /\ on_listening_start /\ on_listening_stop
    /\ startEvents = 1 /\ stopEvents = 1
    /\ ~is_listening

\* C8: whatever fails in NLP analysis, context building or the handler,
\* process_command returns the fixed error response with confidence 0 and
\* raises nothing
C8_ErrorPolicy ==
    result.called
    => (/\ ~result.run.raised
        /\ (\/ result.o.nlp = "raise"
            \/ result.o.ctx = "raise"
            \/ result.o.collab = "raise")
           => (/\ result.run.response.text = ErrorText
               /\ result.run.response.confidence = 0))

\* a run whose handler collaborator failed
C8_Witness ==
    /\ result.called
    /\ result.o.collab = "raise"
    /\ result.o.intent = "automation"
    /\ result.run.steps = <<"nlp", "context", "route">>

\* steps 1-3 of the last run met no failing collaborator and the intent
\* routes to a handler the class defines
Steps123Succeed ==
    /\ result.called
    /\ result.o.nlp = "ok"
    /\ result.o.ctx = "ok"
    /\ result.o.collab = "ok"
    /\ result.o.intent \in DOMAIN command_handlers
         => command_handlers[result.o.intent] \in DefinedHandlers

\* the response the handler for the last command's intent produces
HandlerResponse ==
    CallHandler(IF result.o.intent \in DOMAIN command_handlers
                THEN command_handlers[result.o.intent]
                ELSE "_handle_unknown_command", result.o).response

\* C9: when store_interaction fails after steps 1-3 succeeded, delivery is
\* still attempted and the handler's response is returned
C9_PersistenceIsolated ==
    (Steps123Succeed /\ result.o.store = "raise")
    => (/\ result.run.response = HandlerResponse
        /\ \E i \in 1..Len(result.run.steps) : result.run.steps[i] = "deliver")

\* C10: when delivery fails after steps 1-4 succeeded, the handler's response
\* is returned and the interaction is persisted
C10_DeliveryIsolated ==
    (Steps123Succeed /\ result.o.store = "ok" /\ result.o.deliver = "raise")
    => (/\ result.run.response = HandlerResponse
        /\ result.run.stored =
              <<Interaction(result.command, HandlerResponse, result.source)>>)

\* the order the specification gives for initialization
ClaimedInitOrder == <<"memory", "nlp", "speech", "automation", "plugins", "web">>

Completed(c) == comp[c] \in {"ready", "stopped"}

ThreadsEnded ==
    /\ audio_thread \in {"none", "dead"}
    /\ processing_thread \in {"none", "dead"}

\* C15: when the initialization of a component fails, is_active stays false,
\* none of the four loops is started, startup is aborted with exit status 1
\* and the speech engine's worker threads have ended once the process exited
C15_NoPartialRunningState ==
    (\E c \in Components : comp[c] = "failed")
    => (/\ ~is_active
        /\ ~running
        /\ \A l \in Loops : loops[l] = "notstarted"
        /\ appPc \in {"init_failed", "exited"}
        /\ appPc = "exited" => exitCode = 1 /\ ThreadsEnded)

C15_Witness ==
    /\ appPc = "exited"
    /\ exitCode = 1
    /\ comp["speech"] = "ready"
    /\ comp["automation"] = "failed"
    /\ processing_thread = "dead"

\* C16: the command queue has a fixed capacity below the number of commands
\* its producer offers, so it never holds every command offered
C16_BoundedQueue == Len(command_queue) < MaxSegments

\* C18: a command put on the command queue is eventually passed to
\* process_command
C18_EventuallyDispatched == (command_queue # <<>>) ~> result.called

Speaking == {s \in Speakers : speakers[s].pc = "speaking"}

\* C19: at most one _speak_sync is executing at any time
C19_SpeakSerialized == Cardinality(Speaking) <= 1

NoStepFails ==
    /\ result.called
    /\ result.o.nlp = "ok"
    /\ result.o.ctx = "ok"
    /\ result.o.collab = "ok"
    /\ result.o.store = "ok"
    /\ result.o.deliver = "ok"

\* C20: in a run of process_command in which no collaborator fails, the
\* steps NLP analysis, context build, handler routing, persistence and
\* delivery happen once each in that order and the handler's response is
\* returned
C20_StepOrder ==
    NoStepFails
    => (/\ result.run.steps = <<"nlp", "context", "route", "store", "deliver">>
        /\ ~result.run.raised
        /\ result.run.response # ErrorResponse)

\* C21: once listen_for_commands has set is_listening after the threads
\* were started, the acquisition loop is running
C21_StartBeginsAcquisition ==
    (is_listening /\ audio_thread # "none") => audio_thread \in {"check", "listen"}

\* C22: a recognized utterance processed while Armed enqueues exactly one
\* command, the entire utterance, and leaves the detector Idle
C22_ArmedConsumesUtterance ==
    (op = "process_audio" /\ last.kind = "text" /\ last.armedBefore)
    => (last.enq = <<last.text>> /\ ~wake_word_detected)

RecognitionFailed ==
    op = "process_audio" /\ last.kind \in {"UnknownValueError", "RequestError"}

\* C23: when recognition of a segment fails, in either wake state, the wake
\* state is unchanged, nothing is put on the command queue, no callback is
\* triggered and the processing loop waits for the next segment
C23_RecognitionFailureNoOp ==
    RecognitionFailed
    => (/\ wake_word_detected = last.armedBefore
        /\ last.enq = <<>>
        /\ last.cbs = {}
        /\ ~last.raised
        /\ processing_thread = "wait")

C23_Witness ==
    /\ RecognitionFailed
    /\ last.kind = "RequestError"
    /\ last.armedBefore
    /\ wake_word_detected
    /\ command_queue # <<>>

\* C28: a command is put on the command queue only when the utterance being
\* processed contains a wake phrase or the detector was Armed; an utterance
\* without a wake phrase processed in Idle enqueues nothing and leaves the
\* detector Idle
C28_NoCommandWithoutWake ==
    (op = "process_audio" /\ last.kind = "text")
    => (/\ last.enq # <<>> => (ContainsWakeWord(last.text) \/ last.armedBefore)
        /\ (~ContainsWakeWord(last.text) /\ ~last.armedBefore)
           => (last.enq = <<>> /\ ~wake_word_detected))

C28_Witness ==
    /\ op = "process_audio"
    /\ last.kind = "text"
    /\ last.text = U_Lights
    /\ ~last.armedBefore
    /\ last.enq = <<>>
    /\ ~wake_word_detected

\* C29: while listening is stopped the wake state is Idle and no command
\* is put on the command queue
C29_StopEffective ==
    ~is_listening
    => (/\ ~wake_word_detected
        /\ op = "process_audio" => last.enq = <<>>)

\* C25: emit_event on a type for which no handler was registered invokes no
\* handler, does not raise and creates no registry entry for the type
C25_EmitUnregisteredNoOp ==
    (op = "emit" /\ ~lastEmit.registered)
    => (/\ lastEmit.invoked = <<>>
        /\ lastEmit.failed = {}
        /\ ~lastEmit.raised
        /\ lastEmit.type \notin DOMAIN event_handlers)

C25_Witness ==
    /\ op = "emit"
    /\ ~lastEmit.registered
    /\ lastEmit.type = "web_command"
    /\ DOMAIN event_handlers = {"voice_command"}

\* an invocation of shutdown has cleared the running flags
ShutdownRequested == \E t \in 1..Len(shut) : shut[t].pc # "start"

FlagLoops == {"voice", "monitor", "health"}

RECURSIVE FirstMatchFrom(_, _, _)
FirstMatchFrom(words, text, k) ==
    IF k > Len(words) THEN NoCommand
    ELSE IF Contains(words[k], text)
         THEN LET command == Strip(SplitLast(text, words[k]))
              IN  IF Len(command) > MinCommandLen THEN command ELSE NoCommand
         ELSE FirstMatchFrom(words, text, k + 1)

Occurrences(q, c) == Cardinality({i \in 1..Len(q) : q[i] = c})

\* in how many places command c is held: the queue, the lists being built
\* by drain calls in progress, and the lists already returned
RECURSIVE HeldByDrainers(_, _)
HeldByDrainers(ds, c) ==
    IF ds = {} THEN 0
    ELSE LET d == CHOOSE x \in ds : TRUE
         IN  Occurrences(drainers[d].got, c) + HeldByDrainers(ds \ {d}, c)

Holders(c) ==
    Occurrences(command_queue, c) + HeldByDrainers(Drainers, c)
    + Occurrences(returned, c)

\* q lists some of the offered commands in the order they were put
InPutOrder(q) ==
    /\ \A i \in 1..Len(q) : Occurrences(offered, q[i]) = 1
    /\ \A i, j \in 1..Len(q) : i < j => Len(q[i]) < Len(q[j])

\* C27: get_pending_commands never waits, returns commands in FIFO order,
\* leaves none of the commands queued when it was called on the queue, and
\* under any interleaving with the producer and with other drain calls no
\* command is returned twice or lost
C27_NonBlockingDrain ==
    /\ \A n \in 1..Len(offered) : Holders(offered[n]) = 1
    /\ \A d \in Drainers :
         /\ InPutOrder(drainers[d].got)
         /\ drainers[d].pc = "done"
            => \A i \in 1..Len(drainers[d].atCall) :
                   Occurrences(command_queue, drainers[d].atCall[i]) = 0
         /\ drainers[d].pc = "test" => ENABLED DrainTest(d)
         /\ drainers[d].pc = "get" => ENABLED DrainGet(d)

C27_Witness ==
    /\ Len(offered) = MaxPuts
    /\ drainers["d1"].pc = "done"
    /\ drainers["d2"].pc = "done"
    /\ drainers["d1"].got = <<PutCommand(1), PutCommand(3)>>
    /\ drainers["d2"].got = <<PutCommand(2)>>

====
